---- MODULE Spec2Model ----
(***************************************************************************)
(* A model of flask_loopback/flask_loopback.py:                            *)
(*   - the address registry: FlaskLoopback.activate_address,               *)
(*     deactivate_address, deactivate_all and the context manager on(),    *)
(*     over the table kept by the dispatch module;                         *)
(*   - FlaskLoopback.handle_request with its chain of request context      *)
(*     handlers inside an ExitStack;                                       *)
(*   - the response body reader _IOReader;                                 *)
(*   - the path that handle_request derives from the url;                  *)
(*   - the hostname cache _get_hostname under concurrent dispatches.       *)
(* The parts share no state; each has its own specification.               *)
(***************************************************************************)
EXTENDS Integers, Sequences, FiniteSets, TLC

VARIABLES
    \* ---- address registry ----
    registry,              \* dispatch module: address key -> [handler, ssl]
    registered_addresses,  \* FlaskLoopback._registered_addresses, per instance
    unregister_missing,    \* what dispatch.unregister_loopback_handler does
                           \* for a key it does not hold: "raise" or "noop"
    scopes,                \* open `with loopback.on(address)` blocks, innermost last
    da_pc,                 \* 0, or the instance whose deactivate_all loop is running
    lastCall,              \* the last call made on the activation surface and how it ended
    pre,                   \* registry and address sets as they were before the
                           \* activate_address call that lastCall/the call before it made
    streak,                \* 0..3: consecutive successful activations of one address
                           \* (1, 2 = two or more), 3 = a deactivation right after two
    \* ---- dispatch (handle_request) ----
    request_context_handlers, \* FlaskLoopback._request_context_handlers
    hr,                    \* the running handle_request call
    \* ---- response body reader ----
    rd,                    \* one _IOReader and the result of the last operation on it
    \* ---- path derivation ----
    pd,                    \* a url string and the path handle_request derives from it
    \* ---- hostname cache ----
    hostname,              \* the module global _hostname
    getfqdn_calls,         \* how many times socket.getfqdn() has been called
    th                     \* per thread: where it is in _get_hostname, and what
                           \* it returned last

regVars  == <<registry, registered_addresses, unregister_missing, scopes, da_pc,
              lastCall, pre, streak>>
dispVars == <<request_context_handlers, hr>>
rdVars   == <<rd>>
pathVars == <<pd>>
hostVars == <<hostname, getfqdn_calls, th>>
vars     == <<registry, registered_addresses, unregister_missing, scopes, da_pc,
              lastCall, pre, streak, request_context_handlers, hr, rd, pd,
              hostname, getfqdn_calls, th>>

(***************************************************************************)
(* Bounds                                                                  *)
(***************************************************************************)
NumLoopbacks == 2      \* FlaskLoopback instances
MaxScopes    == 1      \* nesting depth of open on() blocks

Loopbacks == 1..NumLoopbacks
Hosts     == {"example.com", "localhost"}
Ports     == {80}
AddressKeys == {<<host, port>> : host \in Hosts, port \in Ports}

\* What a caller may pass as `address`: a tuple or another sequence type,
\* of any length.
TupleOf(elems) == [isTuple |-> TRUE, elems |-> elems]
ValidAddresses == {TupleOf(k) : k \in AddressKeys}
InvalidAddresses ==
    { [isTuple |-> FALSE, elems |-> <<"localhost", 80>>],      \* a list [host, port]
      [isTuple |-> TRUE,  elems |-> <<"localhost">>],          \* a 1-tuple
      [isTuple |-> TRUE,  elems |-> <<"localhost", 80, 80>>] } \* a 3-tuple
Addresses == ValidAddresses \cup InvalidAddresses

(***************************************************************************)
(* The address registry                                                    *)
(***************************************************************************)

\* isinstance(address, tuple) and len(address) == 2
IsValidAddress(address) == address.isTuple /\ Len(address.elems) = 2

\* dispatch.register_loopback_handler(address, handler, ssl):
\* registers address -> handler globally; an active address is overwritten.
register_loopback_handler(reg, key, handler, ssl) ==
    [k \in DOMAIN reg \cup {key} |->
        IF k = key THEN [handler |-> handler, ssl |-> ssl] ELSE reg[k]]

\* dispatch.unregister_loopback_handler(address): removes the global
\* registration; for an address that is not registered it fails or does
\* nothing, by the policy unregister_missing.
unregister_loopback_handler(reg, key) ==
    IF key \in DOMAIN reg
    THEN [registry |-> [k \in DOMAIN reg \ {key} |-> reg[k]], raised |-> "none"]
    ELSE [registry |-> reg,
          raised |-> IF unregister_missing = "raise" THEN "NotRegistered" ELSE "none"]

World == [registry |-> registry, registered |-> registered_addresses, raised |-> "none"]

\* FlaskLoopback.activate_address(address, ssl)
activate_address(w, self, address, ssl) ==
    IF ~IsValidAddress(address)
    THEN [w EXCEPT !.raised = "AssertionError"]
    ELSE [registry   |-> register_loopback_handler(w.registry, address.elems, self, ssl),
          registered |-> [w.registered EXCEPT ![self] = @ \cup {address.elems}],
          raised     |-> "none"]

\* A deactivate_address that forgets the instance's own record.
deactivate_address_keeps_record(w, self, address) ==
    IF ~IsValidAddress(address)
    THEN [w EXCEPT !.raised = "AssertionError"]
    ELSE LET u == unregister_loopback_handler(w.registry, address.elems)
         IN  [registry |-> u.registry, registered |-> w.registered, raised |-> u.raised]

\* A deactivate_address that forgets the dispatch table.
deactivate_address_keeps_registration(w, self, address) ==
    IF ~IsValidAddress(address)
    THEN [w EXCEPT !.raised = "AssertionError"]
    ELSE IF address.elems \notin w.registered[self]
    THEN [w EXCEPT !.raised = "KeyError"]
    ELSE [registry   |-> w.registry,
          registered |-> [w.registered EXCEPT ![self] = @ \ {address.elems}],
          raised     |-> "none"]

\* A deactivate_address without the shape assertion.
deactivate_address_unasserted(w, self, address) ==
    LET u == unregister_loopback_handler(w.registry, address.elems)
    IN  IF u.raised # "none"
        THEN [w EXCEPT !.raised = u.raised]
        ELSE IF address.elems \notin w.registered[self]
        THEN [registry |-> u.registry, registered |-> w.registered, raised |-> "KeyError"]
        ELSE [registry   |-> u.registry,
              registered |-> [w.registered EXCEPT ![self] = @ \ {address.elems}],
              raised     |-> "none"]

\* FlaskLoopback.deactivate_address(address): the assertion, then the
\* dispatch table, then set.remove, which raises KeyError for a missing element.
deactivate_address(w, self, address) ==
    IF ~IsValidAddress(address)
    THEN [w EXCEPT !.raised = "AssertionError"]
    ELSE LET u == unregister_loopback_handler(w.registry, address.elems)
         IN  IF u.raised # "none"
             THEN [w EXCEPT !.raised = u.raised]
             ELSE IF address.elems \notin w.registered[self]
             THEN [registry |-> u.registry, registered |-> w.registered,
                   raised |-> "KeyError"]
             ELSE [registry   |-> u.registry,
                   registered |-> [w.registered EXCEPT ![self] = @ \ {address.elems}],
                   raised     |-> "none"]

NoSnapshot == [valid |-> FALSE, registry |-> <<>>, registered |-> [h \in Loopbacks |-> {}]]
Snapshot   == [valid |-> TRUE, registry |-> registry, registered |-> registered_addresses]

Call(op, self, address, raised, bodyRaised, owned, ownedRegistered) ==
    [op |-> op, self |-> self, address |-> address, raised |-> raised,
     bodyRaised |-> bodyRaised, owned |-> owned, ownedRegistered |-> ownedRegistered]
SimpleCall(op, self, address, raised) == Call(op, self, address, raised, FALSE, {}, FALSE)

NoAddress == TupleOf(<<>>)

\* The run of consecutive successful activations of one address.
StreakAfterActivate(address, raised) ==
    IF raised # "none" THEN 0
    ELSE IF streak \in {1, 2} /\ lastCall.address = address THEN 2
    ELSE 1
StreakAfterDeactivate(address) ==
    IF streak = 2 /\ lastCall.address = address THEN 3 ELSE 0

Apply(r) ==
    /\ registry' = r.registry
    /\ registered_addresses' = r.registered

\* A call of loopback.activate_address(address, ssl).
ActivateAddress(self, address, ssl) ==
    /\ da_pc = 0
    /\ LET r == activate_address(World, self, address, ssl) IN
        /\ Apply(r)
        /\ lastCall' = SimpleCall("activate_address", self, address, r.raised)
        /\ pre' = IF r.raised = "none" THEN Snapshot ELSE NoSnapshot
        /\ streak' = StreakAfterActivate(address, r.raised)
    /\ UNCHANGED <<unregister_missing, da_pc>>

\* A call of loopback.deactivate_address(address).
DeactivateAddress(self, address) ==
    /\ da_pc = 0
    /\ LET r == deactivate_address(World, self, address) IN
        /\ Apply(r)
        /\ lastCall' = SimpleCall("deactivate_address", self, address, r.raised)
        /\ pre' = IF /\ pre.valid
                     /\ lastCall.op = "activate_address"
                     /\ lastCall.self = self
                     /\ lastCall.address = address
                  THEN pre ELSE NoSnapshot
        /\ streak' = StreakAfterDeactivate(address)
    /\ UNCHANGED <<unregister_missing, da_pc>>

\* Entering `with loopback.on(address, ssl)`: activate_address, then the
\* body runs. A failed activation opens no scope.
OnEnter(self, address, ssl) ==
    /\ da_pc = 0
    /\ Len(scopes) < MaxScopes
    /\ LET r == activate_address(World, self, address, ssl) IN
        /\ Apply(r)
        /\ lastCall' = SimpleCall("on_enter", self, address, r.raised)
        /\ scopes' = IF r.raised = "none"
                     THEN Append(scopes, [self |-> self, address |-> address])
                     ELSE scopes
    /\ pre' = NoSnapshot
    /\ streak' = 0
    /\ UNCHANGED <<unregister_missing, da_pc>>

\* Leaving the innermost on() block, its body having ended normally or by
\* raising: the finally clause calls deactivate_address(address).
OnExit(bodyRaised) ==
    /\ da_pc = 0
    /\ scopes # <<>>
    /\ LET s == scopes[Len(scopes)]
           r == deactivate_address(World, s.self, s.address) IN
        /\ Apply(r)
        /\ lastCall' = Call("on_exit", s.self, s.address, r.raised, bodyRaised, {}, FALSE)
    /\ scopes' = SubSeq(scopes, 1, Len(scopes) - 1)
    /\ pre' = NoSnapshot
    /\ streak' = 0
    /\ UNCHANGED <<unregister_missing, da_pc>>

\* loopback.deactivate_all() is called: the while loop starts.
DeactivateAllStart(self) ==
    /\ da_pc = 0
    /\ da_pc' = self
    /\ lastCall' = Call("deactivate_all_running", self, NoAddress, "none", FALSE,
                        registered_addresses[self],
                        registered_addresses[self] \subseteq DOMAIN registry)
    /\ pre' = NoSnapshot
    /\ streak' = 0
    /\ UNCHANGED <<registry, registered_addresses, unregister_missing>>

\* One evaluation of `while self._registered_addresses:` and, the set
\* being non-empty, one deactivate_address(next(iter(...))).
DeactivateAllStep ==
    /\ da_pc # 0
    /\ IF registered_addresses[da_pc] = {}
       THEN /\ da_pc' = 0
            /\ lastCall' = [lastCall EXCEPT !.op = "deactivate_all"]
            /\ UNCHANGED <<registry, registered_addresses>>
       ELSE \E key \in registered_addresses[da_pc] :
              LET r == deactivate_address(World, da_pc, TupleOf(key)) IN
                /\ Apply(r)
                /\ IF r.raised = "none"
                   THEN UNCHANGED <<da_pc, lastCall>>
                   ELSE /\ da_pc' = 0
                        /\ lastCall' = [lastCall EXCEPT !.op = "deactivate_all",
                                                        !.raised = r.raised]
    /\ UNCHANGED <<unregister_missing, pre, streak>>

InitRegistryVars ==
    /\ registry = <<>>
    /\ registered_addresses = [h \in Loopbacks |-> {}]
    /\ unregister_missing \in {"raise", "noop"}
    /\ scopes = <<>>
    /\ da_pc = 0
    /\ lastCall = SimpleCall("init", 0, NoAddress, "none")
    /\ pre = NoSnapshot
    /\ streak = 0

InitDispatchVars ==
    /\ request_context_handlers = <<>>
    /\ hr = "idle"

InitReaderVars ==
    /\ rd = "none"

InitPathVars ==
    /\ pd = "none"

\* _hostname = None at module level; no thread is dispatching
InitHostVars ==
    /\ hostname = "None"
    /\ getfqdn_calls = 0
    /\ th = <<>>

Init ==
    /\ InitRegistryVars /\ InitDispatchVars /\ InitReaderVars
    /\ InitPathVars /\ InitHostVars

Next ==
    \/ \E self \in Loopbacks, address \in Addresses, ssl \in BOOLEAN :
          /\ ActivateAddress(self, address, ssl)
          /\ UNCHANGED <<scopes, dispVars, rdVars, pathVars, hostVars>>
    \/ \E self \in Loopbacks, address \in Addresses :
          /\ DeactivateAddress(self, address)
          /\ UNCHANGED <<scopes, dispVars, rdVars, pathVars, hostVars>>
    \/ \E self \in Loopbacks :
          /\ DeactivateAllStart(self)
          /\ UNCHANGED <<scopes, dispVars, rdVars, pathVars, hostVars>>
    \/ /\ DeactivateAllStep
       /\ UNCHANGED <<scopes, dispVars, rdVars, pathVars, hostVars>>

\* The calls of the activation surface without on().
Spec == Init /\ [][Next]_vars

\* A deactivate_all call that has started keeps running: its loop takes its
\* next step.
DeactivateAllLoop ==
    /\ DeactivateAllStep
    /\ UNCHANGED <<scopes, dispVars, rdVars, pathVars, hostVars>>

SpecTerm == Init /\ [][Next]_vars /\ WF_vars(DeactivateAllLoop)

NextOn ==
    \/ Next
    \/ \E self \in Loopbacks, address \in Addresses, ssl \in BOOLEAN :
          /\ OnEnter(self, address, ssl)
          /\ UNCHANGED <<dispVars, rdVars, pathVars, hostVars>>
    \/ \E bodyRaised \in BOOLEAN :
          /\ OnExit(bodyRaised)
          /\ UNCHANGED <<dispVars, rdVars, pathVars, hostVars>>

\* The whole activation surface, on() included.
SpecOn == Init /\ [][NextOn]_vars

(***************************************************************************)
(* Dispatch: FlaskLoopback.handle_request                                  *)
(***************************************************************************)
MaxHandlers == 3       \* length of _request_context_handlers

HandlerNames == {"auth", "trace"}
StatusCodes  == {200, 403, 799}
Exceptions   == {"Error", "CustomHTTPResponse"}

\* httplib.responses.get(code, None)
Reason(code) ==
    CASE code = 200 -> "OK"
      [] code = 403 -> "Forbidden"
      [] code = 404 -> "Not Found"
      [] OTHER      -> "None"

Urls ==
    { [text |-> "http://example.com/api/widgets?x=1", scheme |-> "http"],
      [text |-> "//example.com/api", scheme |-> ""] }
\* request.body: bytes, or a stream over bytes (an object with a read method).
RequestBodies == { <<>>, <<"a", "b">> }
RequestFor(url, stream, body) ==
    [url |-> url.text, method |-> "get", stream |-> stream, body |-> body]

NoRequest  == [url |-> "", method |-> "", stream |-> FALSE, body |-> <<>>]
NoResponse == [url |-> "", status_code |-> 0, reason |-> "None", request |-> NoRequest]

\* CustomHTTPResponse(request, code).response
CustomHTTPResponse(request, code) ==
    [url |-> request.url, status_code |-> code, reason |-> Reason(code),
     request |-> request]

\* The requests.Response that handle_request builds from the test client's
\* response: url, status_code, reason and request.
TranslatedResponse(url, request, status) ==
    [url |-> url.text, status_code |-> status, reason |-> Reason(status),
     request |-> request]

Idle ==
    [pc |-> "idle", url |-> [text |-> "", scheme |-> ""], request |-> NoRequest,
     i |-> 0, entered |-> <<>>, exited |-> <<>>, exc |-> "none",
     hasRetval |-> FALSE, retval |-> NoResponse, appCalls |-> 0,
     intercepted |-> 0, exitRaised |-> FALSE, bodyReads |-> 0,
     session |-> FALSE, streamPos |-> 0, data |-> <<>>, appData |-> <<>>,
     hostnameReads |-> 0, invoked |-> <<>>, excFrom |-> "none",
     appExc |-> "none", exitSuppressed |-> FALSE, translated |-> FALSE,
     setCookie |-> <<>>, responseJar |-> {}, sessionJar |-> {}]

\* A translation that leaves a stream body for the application to read.
handle_request_begin_unread(url, request, session) ==
    IF url.scheme = ""
    THEN [Idle EXCEPT !.pc = "done", !.url = url, !.request = request,
                      !.session = session,
                      !.exc = "AssertionError", !.excFrom = "assert"]
    ELSE [Idle EXCEPT !.pc = "chain", !.url = url, !.request = request,
                      !.session = session, !.i = 1,
                      !.data = IF request.stream THEN <<>> ELSE request.body,
                      !.hostnameReads = 1]

\* handle_request(session, url, request) up to the `with ExitStack()`:
\* the scheme assertion, then the request body is read to its end if it is
\* a stream and used as it is otherwise, then open_kwargs is built, which
\* calls _get_hostname().
handle_request_begin(url, request, session) ==
    IF url.scheme = ""
    THEN [Idle EXCEPT !.pc = "done", !.url = url, !.request = request,
                      !.session = session,
                      !.exc = "AssertionError", !.excFrom = "assert"]
    ELSE [Idle EXCEPT !.pc = "chain", !.url = url, !.request = request,
                      !.session = session, !.i = 1,
                      !.bodyReads = IF request.stream THEN 1 ELSE 0,
                      !.streamPos = IF request.stream THEN Len(request.body) ELSE 0,
                      !.data = request.body,
                      !.hostnameReads = 1]

\* A chain that walks the handler list from its last entry to its first.
HandlerAtReversed(i) ==
    request_context_handlers[Len(request_context_handlers) + 1 - i]

\* `for handler in self._request_context_handlers`: the i-th handler called
\* is the i-th one appended by register_request_context_handler.
HandlerAt(i) == request_context_handlers[i]

\* A chain step that notes the short-circuit but goes on to the next handler.
enter_context_no_return(h, outcome) ==
    IF outcome.kind = "enter"
    THEN [h EXCEPT !.entered = Append(@, h.i), !.i = @ + 1,
                   !.invoked = Append(@, HandlerAt(h.i))]
    ELSE IF outcome.kind = "custom"
    THEN [h EXCEPT !.i = @ + 1, !.intercepted = outcome.code,
                   !.invoked = Append(@, HandlerAt(h.i))]
    ELSE [h EXCEPT !.pc = "unwind", !.exc = "Error", !.excFrom = "handler",
                   !.invoked = Append(@, HandlerAt(h.i))]

\* One iteration of `for handler in self._request_context_handlers`:
\*   try: stack.enter_context(handler(request))
\*   except CustomHTTPResponse as e: return e.response
\* The handler returns a scope that is entered, or it raises the signal with
\* a status code, or it raises something else, which is not caught here.
enter_context(h, outcome) ==
    IF outcome.kind = "enter"
    THEN [h EXCEPT !.entered = Append(@, h.i), !.i = @ + 1,
                   !.invoked = Append(@, HandlerAt(h.i))]
    ELSE IF outcome.kind = "custom"
    THEN [h EXCEPT !.pc = "unwind", !.hasRetval = TRUE,
                   !.retval = CustomHTTPResponse(h.request, outcome.code),
                   !.intercepted = outcome.code,
                   !.invoked = Append(@, HandlerAt(h.i))]
    ELSE [h EXCEPT !.pc = "unwind", !.exc = "Error", !.excFrom = "handler",
                   !.invoked = Append(@, HandlerAt(h.i))]

HandlerOutcomes ==
    {[kind |-> "enter", code |-> 0], [kind |-> "error", code |-> 0]}
        \cup {[kind |-> "custom", code |-> c] : c \in StatusCodes}

\* The values of the Set-Cookie headers of an application response, in
\* header order.
Cookies == {"sid", "lang"}
SetCookieHeaders == { <<>>, <<"sid">>, <<"sid", "lang">> }

\* _MockResponse.getheaders(name): self._resp.headers.get(name.lower()) is
\* the first header of that name, or None; the result is a list of at most
\* one value.
getheaders(headers) == IF headers = <<>> THEN <<>> ELSE <<Head(headers)>>

\* _MockResponse.get_all(name, default): getheaders(name) or default
get_all(headers, default) ==
    IF getheaders(headers) # <<>> THEN getheaders(headers) ELSE default

\* obj.cookies.extract_cookies(mocked_response, mocked_request): the jar
\* takes a cookie from every Set-Cookie value the mocked response hands it.
extract_cookies(jar, headers) ==
    jar \cup { get_all(headers, <<>>)[j] : j \in 1..Len(get_all(headers, <<>>)) }

\* An application call whose exception is dropped instead of raised.
test_client_open_swallows(h, outcome) ==
    IF outcome.kind = "response"
    THEN [h EXCEPT !.pc = "unwind", !.appCalls = @ + 1, !.appData = h.data,
                   !.translated = TRUE, !.setCookie = outcome.cookies,
                   !.hasRetval = TRUE,
                   !.retval = TranslatedResponse(h.url, h.request, outcome.code)]
    ELSE [h EXCEPT !.pc = "unwind", !.appCalls = @ + 1, !.appData = h.data,
                   !.appExc = outcome.kind]

\* resp = self._test_client.open(path, **open_kwargs) and the translation of
\* resp; an exception of the application leaves the with block.  The
\* translation ends with _extract_cookies: `for obj in (response, session):
\* obj.cookies.extract_cookies(...)` fills the jar of the response and then
\* the jar of the session; a session of None has no attribute `cookies`.
test_client_open(h, outcome) ==
    IF outcome.kind = "response"
    THEN IF h.session
         THEN [h EXCEPT !.pc = "unwind", !.appCalls = @ + 1, !.appData = h.data,
                        !.translated = TRUE, !.setCookie = outcome.cookies,
                        !.responseJar = extract_cookies(@, outcome.cookies),
                        !.sessionJar = extract_cookies(@, outcome.cookies),
                        !.hasRetval = TRUE,
                        !.retval = TranslatedResponse(h.url, h.request, outcome.code)]
         ELSE [h EXCEPT !.pc = "unwind", !.appCalls = @ + 1, !.appData = h.data,
                        !.translated = TRUE, !.setCookie = outcome.cookies,
                        !.responseJar = extract_cookies(@, outcome.cookies),
                        !.exc = "AttributeError", !.excFrom = "translate"]
    ELSE [h EXCEPT !.pc = "unwind", !.appCalls = @ + 1, !.appData = h.data,
                   !.exc = outcome.kind, !.excFrom = "app",
                   !.appExc = outcome.kind]

AppOutcomes ==
    {[kind |-> "response", code |-> c, cookies |-> k] :
        c \in StatusCodes, k \in SetCookieHeaders}
        \cup {[kind |-> e, code |-> 0, cookies |-> <<>>] : e \in Exceptions}

\* An ExitStack that pops its callbacks first-in first-out.
NextToExitFifo(h) == h.entered[Len(h.exited) + 1]

\* ExitStack.__exit__ pops its callbacks last-in first-out.
NextToExit(h) == h.entered[Len(h.entered) - Len(h.exited)]

\* ExitStack.__exit__ calls one callback with the exception in flight: the
\* callback returns false, returns true (the exception is suppressed) or
\* raises (its exception replaces the one in flight).
exit_callback(h, outcome) ==
    LET k == NextToExit(h) IN
         [h EXCEPT !.exited = Append(@, k),
                   !.exc = CASE outcome = "ok"       -> @
                             [] outcome = "suppress" -> "none"
                             [] OTHER                -> outcome,
                   !.excFrom = CASE outcome = "ok"       -> @
                                 [] outcome = "suppress" -> "none"
                                 [] OTHER                -> "exit",
                   !.exitRaised = @ \/ outcome \in Exceptions,
                   !.exitSuppressed = @ \/ (outcome = "suppress" /\ h.exc # "none")]

ExitOutcomes == {"ok", "suppress"} \cup Exceptions

\* How the call ended: an exception left in flight is raised; otherwise the
\* value of the return statement that was reached, or None when the with
\* block swallowed the exception of its body.
Raised(h)   == h.pc = "done" /\ h.exc # "none"
Returned(h) == h.pc = "done" /\ h.exc = "none"
ReturnValue(h) == IF h.hasRetval THEN h.retval ELSE NoResponse

\* loopback.register_request_context_handler(handler)
RegisterRequestContextHandler(handler) ==
    /\ hr.pc = "idle"
    /\ Len(request_context_handlers) < MaxHandlers
    /\ request_context_handlers' = Append(request_context_handlers, handler)
    /\ UNCHANGED hr

HandleRequestBegin(url, stream, body, session) ==
    /\ hr.pc = "idle"
    /\ hr' = handle_request_begin(url, RequestFor(url, stream, body), session)
    /\ UNCHANGED request_context_handlers

EnterContext(outcome) ==
    /\ hr.pc = "chain"
    /\ hr.i <= Len(request_context_handlers)
    /\ hr' = enter_context(hr, outcome)
    /\ UNCHANGED request_context_handlers

TestClientOpen(outcome) ==
    /\ hr.pc = "chain"
    /\ hr.i > Len(request_context_handlers)
    /\ hr' = test_client_open(hr, outcome)
    /\ UNCHANGED request_context_handlers

ExitCallback(outcome) ==
    /\ hr.pc = "unwind"
    /\ Len(hr.exited) < Len(hr.entered)
    /\ hr' = exit_callback(hr, outcome)
    /\ UNCHANGED request_context_handlers

\* Every callback has run: handle_request returns or raises.
HandleRequestEnd ==
    /\ hr.pc = "unwind"
    /\ Len(hr.exited) = Len(hr.entered)
    /\ hr' = [hr EXCEPT !.pc = "done"]
    /\ UNCHANGED request_context_handlers

\* The caller has the result; the instance is ready for the next request.
NextRequest ==
    /\ hr.pc = "done"
    /\ hr' = Idle
    /\ UNCHANGED request_context_handlers

InitDispatch ==
    /\ InitRegistryVars
    /\ unregister_missing = "raise"
    /\ request_context_handlers = <<>>
    /\ hr = Idle
    /\ InitReaderVars
    /\ InitPathVars
    /\ InitHostVars

NextDispatch ==
    \/ \E handler \in HandlerNames :
          /\ RegisterRequestContextHandler(handler)
          /\ UNCHANGED <<regVars, rdVars, pathVars, hostVars>>
    \/ \E url \in Urls, stream \in BOOLEAN, body \in RequestBodies,
          session \in BOOLEAN :
          /\ HandleRequestBegin(url, stream, body, session)
          /\ UNCHANGED <<regVars, rdVars, pathVars, hostVars>>
    \/ \E outcome \in HandlerOutcomes :
          /\ EnterContext(outcome)
          /\ UNCHANGED <<regVars, rdVars, pathVars, hostVars>>
    \/ \E outcome \in AppOutcomes :
          /\ TestClientOpen(outcome)
          /\ UNCHANGED <<regVars, rdVars, pathVars, hostVars>>
    \/ \E outcome \in ExitOutcomes :
          /\ ExitCallback(outcome)
          /\ UNCHANGED <<regVars, rdVars, pathVars, hostVars>>
    \/ /\ HandleRequestEnd
       /\ UNCHANGED <<regVars, rdVars, pathVars, hostVars>>
    \/ /\ NextRequest
       /\ UNCHANGED <<regVars, rdVars, pathVars, hostVars>>

SpecDispatch == InitDispatch /\ [][NextDispatch]_vars

(***************************************************************************)
(* The response body reader: _IOReader                                     *)
(***************************************************************************)
MaxBody == 3           \* length of the response body
MaxRead == 2           \* read(n) is called with n in 0..MaxRead, or with no size

Bytes  == {"a", "b"}
Bodies == UNION {[1..n -> Bytes] : n \in 0..MaxBody}
ReadSizes == {-1} \cup (0..MaxRead)    \* -1: read() with no size

\* six.BytesIO.read(n): the next n bytes, or all that remain for no size or
\* a negative one; ValueError on a closed file.
BytesIO_read(r, n) ==
    IF r.closed
    THEN [reader |-> r, result |-> <<>>, raised |-> "ValueError"]
    ELSE LET left == Len(r.body) - r.pos
             take == IF n < 0 \/ n > left THEN left ELSE n
         IN  [reader |-> [r EXCEPT !.pos = @ + take],
              result |-> SubSeq(r.body, r.pos + 1, r.pos + take),
              raised |-> "none"]

\* A read that does not look at self.closed first.
read_unguarded(r, n) ==
    LET b == BytesIO_read(r, n) IN
    IF b.raised = "none" /\ b.result = <<>>
    THEN [b EXCEPT !.reader.closed = TRUE]
    ELSE b

\* _IOReader.read(n)
read(r, n) ==
    IF r.closed
    THEN [reader |-> r, result |-> <<>>, raised |-> "none"]
    ELSE LET b == BytesIO_read(r, n) IN
         IF b.raised = "none" /\ b.result = <<>>
         THEN [b EXCEPT !.reader.closed = TRUE]
         ELSE b

\* _IOReader(resp_data): handle_request wraps the body, empty or not.
IOReader(body) ==
    [body |-> body, pos |-> 0, closed |-> FALSE,
     op |-> "new", n |-> 0, result |-> <<>>, raised |-> "none",
     wasClosed |-> FALSE, sawEmpty |-> FALSE, explicitClose |-> FALSE, got |-> <<>>]

Read(n) ==
    LET o == read(rd, n) IN
    rd' = [o.reader EXCEPT !.op = "read", !.n = n, !.result = o.result,
                           !.raised = o.raised, !.wasClosed = rd.closed,
                           !.sawEmpty = @ \/ (o.raised = "none" /\ o.result = <<>>),
                           !.got = @ \o o.result]

\* close(), by the consumer of the response.
Close ==
    rd' = [rd EXCEPT !.closed = TRUE, !.op = "close", !.n = 0, !.result = <<>>,
                     !.raised = "none", !.wasClosed = rd.closed,
                     !.explicitClose = TRUE]

InitReader ==
    /\ InitRegistryVars
    /\ unregister_missing = "raise"
    /\ InitDispatchVars
    /\ InitPathVars
    /\ InitHostVars
    /\ \E body \in Bodies : rd = IOReader(body)

NextReader ==
    \/ \E n \in ReadSizes :
          /\ Read(n)
          /\ UNCHANGED <<regVars, dispVars, pathVars, hostVars>>
    \/ /\ Close
       /\ UNCHANGED <<regVars, dispVars, pathVars, hostVars>>

SpecReader == InitReader /\ [][NextReader]_vars

(***************************************************************************)
(* Path derivation: path = "/{0}".format(url.split("/", 3)[-1])            *)
(* Strings are sequences of one-character strings.                         *)
(***************************************************************************)
MaxUrlTail == 4        \* characters of a url after its scheme and colon

UrlChars == {"/", "a", "?"}
SchemePrefix == <<"h", "t", "t", "p", ":">>
ExampleUrl ==
    <<"h", "t", "t", "p", ":", "/", "/", "e", "x", "a", "m", "p", "l", "e", ".", "c", "o", "m", "/">>
    \o <<"a", "p", "i", "/", "w", "i", "d", "g", "e", "t", "s", "?", "x", "=", "1">>

RECURSIVE StringsOfLen(_)
StringsOfLen(n) ==
    IF n = 0 THEN { <<>> }
    ELSE { Append(t, c) : t \in StringsOfLen(n - 1), c \in UrlChars }

\* the url strings handle_request is given: a scheme, a colon and a tail
UrlStrings ==
    {ExampleUrl} \cup
    { SchemePrefix \o t : t \in UNION { StringsOfLen(n) : n \in 0..MaxUrlTail } }

\* str.find("/"): the index of the first "/", or 0 when there is none
FindSlash(str) ==
    IF \E k \in 1..Len(str) : str[k] = "/"
    THEN CHOOSE k \in 1..Len(str) :
            str[k] = "/" /\ \A j \in 1..(k - 1) : str[j] # "/"
    ELSE 0

\* str.split("/", maxsplit): the pieces of str between its first maxsplit
\* occurrences of "/"; the last piece is the rest of the string.
RECURSIVE split(_, _)
split(str, maxsplit) ==
    IF maxsplit = 0 \/ FindSlash(str) = 0
    THEN << str >>
    ELSE << SubSeq(str, 1, FindSlash(str) - 1) >>
            \o split(SubSeq(str, FindSlash(str) + 1, Len(str)), maxsplit - 1)

\* A derivation that splits at every "/" of the url.
derive_path_split_all(url) ==
    << "/" >> \o split(url, Len(url))[Len(split(url, Len(url)))]

\* path = "/{0}".format(url.split("/", 3)[-1])
derive_path(url) ==
    << "/" >> \o split(url, 3)[Len(split(url, 3))]

DerivePath ==
    /\ ~pd.done
    /\ pd' = [pd EXCEPT !.path = derive_path(pd.url), !.done = TRUE]

InitPath ==
    /\ InitRegistryVars
    /\ unregister_missing = "raise"
    /\ InitDispatchVars
    /\ InitReaderVars
    /\ InitHostVars
    /\ \E url \in UrlStrings : pd = [url |-> url, path |-> <<>>, done |-> FALSE]

NextPath ==
    /\ DerivePath
    /\ UNCHANGED <<regVars, dispVars, rdVars, hostVars>>

SpecPath == InitPath /\ [][NextPath]_vars

(***************************************************************************)
(* The hostname cache: _hostname and _get_hostname(), called by every      *)
(* dispatch when it builds open_kwargs.  Dispatches run in threads; a      *)
(* thread may be switched between any two steps of _get_hostname.          *)
(***************************************************************************)
NumThreads    == 2     \* threads that dispatch
MaxDispatches == 2     \* dispatches of one thread

Threads == 1..NumThreads
\* what socket.getfqdn() may answer
Fqdns == {"host.example.com", "localhost"}

\* handle_request builds open_kwargs: _get_hostname() is called
GetHostnameCall(t) ==
    /\ th[t].pc = "idle"
    /\ th[t].n < MaxDispatches
    /\ th' = [th EXCEPT ![t].pc = "check"]
    /\ UNCHANGED <<hostname, getfqdn_calls>>

\* if _hostname is None:
GetHostnameCheck(t) ==
    /\ th[t].pc = "check"
    /\ th' = [th EXCEPT ![t].pc = IF hostname = "None" THEN "compute" ELSE "return"]
    /\ UNCHANGED <<hostname, getfqdn_calls>>

\* socket.getfqdn() is called and answers
GetHostnameCompute(t, fqdn) ==
    /\ th[t].pc = "compute"
    /\ getfqdn_calls' = getfqdn_calls + 1
    /\ th' = [th EXCEPT ![t].pc = "store", ![t].val = fqdn]
    /\ UNCHANGED hostname

\* _hostname = <the answer>
GetHostnameStore(t) ==
    /\ th[t].pc = "store"
    /\ hostname' = th[t].val
    /\ th' = [th EXCEPT ![t].pc = "return"]
    /\ UNCHANGED getfqdn_calls

\* return _hostname: the REMOTE_ADDR of this dispatch
GetHostnameReturn(t) ==
    /\ th[t].pc = "return"
    /\ th' = [th EXCEPT ![t].pc = "idle", ![t].result = hostname, ![t].n = @ + 1]
    /\ UNCHANGED <<hostname, getfqdn_calls>>

InitHostname ==
    /\ InitRegistryVars
    /\ unregister_missing = "raise"
    /\ InitDispatchVars
    /\ InitReaderVars
    /\ InitPathVars
    /\ hostname = "None"
    /\ getfqdn_calls = 0
    /\ th = [t \in Threads |-> [pc |-> "idle", val |-> "None", result |-> "None", n |-> 0]]

NextHostname ==
    \/ \E t \in Threads :
          /\ GetHostnameCall(t)
          /\ UNCHANGED <<regVars, dispVars, rdVars, pathVars>>
    \/ \E t \in Threads :
          /\ GetHostnameCheck(t)
          /\ UNCHANGED <<regVars, dispVars, rdVars, pathVars>>
    \/ \E t \in Threads, fqdn \in Fqdns :
          /\ GetHostnameCompute(t, fqdn)
          /\ UNCHANGED <<regVars, dispVars, rdVars, pathVars>>
    \/ \E t \in Threads :
          /\ GetHostnameStore(t)
          /\ UNCHANGED <<regVars, dispVars, rdVars, pathVars>>
    \/ \E t \in Threads :
          /\ GetHostnameReturn(t)
          /\ UNCHANGED <<regVars, dispVars, rdVars, pathVars>>

SpecHostname == InitHostname /\ [][NextHostname]_vars

(***************************************************************************)
(* Claims about the address registry (specification Spec)                  *)
(***************************************************************************)
LastKey == lastCall.address.elems

\* C19: a deactivate_all call that has started ends, by emptying the
\* instance's address set or by raising; every iteration of its loop that
\* does not end the call strictly shrinks the set.
C19_DeactivateAllTerminates ==
    /\ (da_pc # 0) ~> (da_pc = 0)
    /\ [][(da_pc # 0 /\ da_pc' # 0) =>
            /\ da_pc' = da_pc
            /\ registered_addresses'[da_pc] \subseteq registered_addresses[da_pc]
            /\ registered_addresses'[da_pc] # registered_addresses[da_pc]]_vars

\* Reached: a deactivate_all call over two addresses has ended with the
\* set empty.
C19_Witness ==
    /\ da_pc = 0
    /\ lastCall.op = "deactivate_all"
    /\ lastCall.raised = "none"
    /\ Cardinality(lastCall.owned) = 2
    /\ registered_addresses[lastCall.self] = {}

\* C3: when an on(address) block has been left, normally or by a raised
\* condition, the address is neither in the registry nor in the instance's
\* active-address set, whatever was done to the address while the block was
\* open.
C3_ScopeExitDeactivates ==
    lastCall.op = "on_exit" =>
        /\ LastKey \notin DOMAIN registry
        /\ LastKey \notin registered_addresses[lastCall.self]

C5_DeactivateAllClears ==
    (lastCall.op = "deactivate_all" /\ lastCall.ownedRegistered) =>
        /\ lastCall.raised = "none"
        /\ registered_addresses[lastCall.self] = {}
        /\ lastCall.owned \cap DOMAIN registry = {}

\* Reached: a deactivate_all that had two addresses to deactivate.
C5_Witness ==
    /\ lastCall.op = "deactivate_all"
    /\ lastCall.ownedRegistered
    /\ Cardinality(lastCall.owned) >= 2
    /\ lastCall.raised = "none"

\* C6: every instance's active-address set is a subset of the registry
\* keys that map to that instance.
C6_ActiveSetWithinRegistry ==
    \A self \in Loopbacks : \A key \in registered_addresses[self] :
        key \in DOMAIN registry /\ registry[key].handler = self

\* C7: two activations of one address followed by one deactivation of it
\* never end with all three calls succeeding and the address inactive.
C7_DoubleActivationKeepsAddress ==
    (streak = 3 /\ lastCall.raised = "none") => LastKey \in DOMAIN registry

\* C8: activate_address and deactivate_address given an address that is not
\* a 2-element tuple raise the assertion error and leave the registry and
\* every active-address set unchanged.
C8_InvalidAddressRejected ==
    [][ ( /\ lastCall'.op \in {"activate_address", "deactivate_address"}
          /\ ~IsValidAddress(lastCall'.address) ) =>
            /\ lastCall'.raised = "AssertionError"
            /\ registry' = registry
            /\ registered_addresses' = registered_addresses ]_vars

\* Reached: a rejected deactivation while an address is active.
C8_Witness ==
    /\ lastCall.op = "deactivate_address"
    /\ ~IsValidAddress(lastCall.address)
    /\ lastCall.raised = "AssertionError"
    /\ registry # <<>>

\* C9: deactivate_address of an address that is not active for the
\* instance raises and leaves the registry and every active-address set
\* unchanged.
C9_FailedDeactivationChangesNothing ==
    [][ ( /\ lastCall'.op = "deactivate_address"
          /\ IsValidAddress(lastCall'.address)
          /\ lastCall'.address.elems \notin registered_addresses[lastCall'.self] ) =>
            /\ lastCall'.raised # "none"
            /\ registry' = registry
            /\ registered_addresses' = registered_addresses ]_vars

(***************************************************************************)
(* Claims about dispatch (specification SpecDispatch)                      *)
(***************************************************************************)
Reverse(seq) == [j \in 1..Len(seq) |-> seq[Len(seq) + 1 - j]]

C2_ScopesExitedInReverse ==
    /\ Len(hr.exited) <= Len(hr.entered)
    /\ \A j \in 1..Len(hr.exited) : hr.exited[j] = Reverse(hr.entered)[j]
    /\ hr.pc = "done" => hr.exited = Reverse(hr.entered)
    /\ hr.pc = "chain" => hr.exited = <<>>
    /\ hr.entered = [j \in 1..Len(hr.entered) |-> j]

\* Reached: the application raised with two scopes entered, and both were
\* exited.
C2_Witness ==
    /\ hr.pc = "done"
    /\ hr.appCalls = 1
    /\ ~hr.hasRetval
    /\ hr.entered = <<1, 2>>
    /\ hr.exited = <<2, 1>>

(***************************************************************************)
(* Claims about the body reader (specification SpecReader)                 *)
(***************************************************************************)

\* C10: read never raises; a read of a closed reader returns the empty
\* result; once a read has returned the empty result the reader is closed
\* and stays closed.
C10_ReaderEndOfStream ==
    /\ rd.op = "read" => rd.raised = "none"
    /\ (rd.op = "read" /\ rd.wasClosed) => rd.result = <<>>
    /\ rd.sawEmpty => rd.closed

\* Reached: the empty body was read twice.
C10_Witness ==
    /\ rd.body = <<>>
    /\ rd.op = "read"
    /\ rd.wasClosed
    /\ rd.sawEmpty
    /\ rd.result = <<>>

\* C20: as long as nobody closed the reader explicitly, the results of the
\* reads so far, put together, are a prefix of the body; once a read has
\* returned the empty result they are the whole body, and the reader is
\* never closed with bytes of the body still unread.
C20_ReadsYieldWholeBody ==
    ~rd.explicitClose =>
        /\ Len(rd.got) <= Len(rd.body)
        /\ rd.got = SubSeq(rd.body, 1, Len(rd.got))
        /\ rd.sawEmpty => rd.got = rd.body
        /\ rd.closed => rd.pos = Len(rd.body)

(***************************************************************************)
(* Further claims about dispatch (specification SpecDispatch)              *)
(***************************************************************************)

\* C11: the custom-response signal never leaves handle_request: whoever
\* raised it (a handler, the entry or the exit of its scope, the
\* application), the call does not end by raising the signal to its caller.
C11_SignalNeverEscapes ==
    hr.pc = "done" => hr.exc # "CustomHTTPResponse"

CookiesSet(h) == { h.setCookie[j] : j \in 1..Len(h.setCookie) }

\* C14: in a dispatch that reached the translation of the application's
\* response the cookies the application set are in the jar of the response,
\* and in the jar of the session exactly when a session was given; without
\* a session the dispatch still returns the translated response (no scope
\* exit raising).
C14_CookiesExtractedIntoJars ==
    (hr.pc = "done" /\ hr.translated) =>
        /\ hr.responseJar = CookiesSet(hr)
        /\ hr.session => hr.sessionJar = CookiesSet(hr)
        /\ ~hr.session => hr.sessionJar = {}
        /\ (~hr.session /\ ~hr.exitRaised) =>
              /\ Returned(hr)
              /\ hr.hasRetval
              /\ ReturnValue(hr).url = hr.request.url

\* C15: the chain of handlers runs before the request is translated: while
\* a handler is still to be called neither the body stream has been read nor
\* the hostname looked up, so a dispatch that a handler short-circuited has
\* left the body stream unread.
C15_ChainBeforeTranslation ==
    /\ (hr.pc = "chain" /\ hr.i <= Len(request_context_handlers)) =>
          (hr.bodyReads = 0 /\ hr.hostnameReads = 0)
    /\ hr.intercepted # 0 => (hr.bodyReads = 0 /\ hr.streamPos = 0)

\* C16: the handlers called in a dispatch are the first registered ones, in
\* the order of their registration, each once; when a handler has raised
\* the custom-response signal it is the last one called, every one before
\* it having been entered.
C16_HandlersInvokedInOrder ==
    /\ Len(hr.invoked) <= Len(request_context_handlers)
    /\ \A j \in 1..Len(hr.invoked) : hr.invoked[j] = request_context_handlers[j]
    /\ hr.intercepted # 0 => Len(hr.invoked) = Len(hr.entered) + 1

\* Reached: of three registered handlers the first was entered, the second
\* answered 403 and the third was not called.
C16_Witness ==
    /\ hr.pc = "done"
    /\ request_context_handlers = <<"auth", "trace", "auth">>
    /\ hr.invoked = <<"auth", "trace">>
    /\ hr.intercepted = 403

\* C17: in a dispatch whose url has a scheme, a body that is a stream has
\* been read once, to its end, from the first step of the dispatch to its
\* last, however the dispatch goes on; a body that is not a stream is not
\* read, and the application is given the body's bytes unchanged.
C17_BodyStreamReadOnce ==
    (hr.pc # "idle" /\ hr.url.scheme # "") =>
        /\ hr.request.stream =>
              /\ hr.bodyReads = 1
              /\ hr.streamPos = Len(hr.request.body)
        /\ ~hr.request.stream => hr.bodyReads = 0
        /\ hr.data = hr.request.body
        /\ hr.appCalls > 0 => hr.appData = hr.request.body

\* Reached: a dispatch with a two-byte stream body was short-circuited and
\* has ended with the stream at its end.
C17_Witness ==
    /\ hr.pc = "done"
    /\ hr.request.stream
    /\ hr.request.body = <<"a", "b">>
    /\ hr.intercepted # 0
    /\ hr.streamPos = 2
    /\ hr.bodyReads = 1

(***************************************************************************)
(* Claims about the derived path (specification SpecPath)                  *)
(***************************************************************************)
\* positions of "/" in a string, and the position of the third one
SlashPositions(str) == { k \in 1..Len(str) : str[k] = "/" }
ThirdSlash(str) ==
    CHOOSE k \in SlashPositions(str) :
        Cardinality({ j \in SlashPositions(str) : j < k }) = 2
LastSlash(str) ==
    IF SlashPositions(str) = {} THEN 0
    ELSE CHOOSE k \in SlashPositions(str) : \A j \in SlashPositions(str) : j <= k

\* C13 as stated: the path derived from http://example.com/api/widgets?x=1
\* is /widgets?x=1, and in general the path is "/" followed by what is left
\* of the url string after its third "/".
C13_PathOfExampleIsWidgets ==
    pd.done =>
        /\ pd.url = ExampleUrl =>
              pd.path = <<"/", "w", "i", "d", "g", "e", "t", "s", "?", "x", "=", "1">>
        /\ Cardinality(SlashPositions(pd.url)) >= 3 =>
              pd.path = << "/" >> \o SubSeq(pd.url, ThirdSlash(pd.url) + 1, Len(pd.url))

\* C13 as amended: the path derived from http://example.com/api/widgets?x=1
\* is /api/widgets?x=1; in general the path is "/" followed by what is left
\* of the url string after its third "/", and for a url string with fewer
\* than three "/" it is "/" followed by what is left after its last "/".
C13_PathIsRestAfterThirdSlash ==
    pd.done =>
        /\ pd.url = ExampleUrl =>
              pd.path = <<"/", "a", "p", "i", "/", "w", "i", "d", "g", "e", "t", "s", "?", "x", "=", "1">>
        /\ Cardinality(SlashPositions(pd.url)) >= 3 =>
              pd.path = << "/" >> \o SubSeq(pd.url, ThirdSlash(pd.url) + 1, Len(pd.url))
        /\ Cardinality(SlashPositions(pd.url)) < 3 =>
              pd.path = << "/" >> \o SubSeq(pd.url, LastSlash(pd.url) + 1, Len(pd.url))

\* Reached: the path of the example url has been derived.
C13_Witness ==
    /\ pd.done
    /\ pd.url = ExampleUrl
    /\ pd.path = << "/" >> \o <<"a", "p", "i", "/", "w", "i", "d", "g", "e", "t", "s", "?", "x", "=", "1">>

(***************************************************************************)
(* Claims about the hostname cache (specification SpecHostname)            *)
(***************************************************************************)

\* C18: with dispatches running concurrently socket.getfqdn is called at
\* most once, and all dispatches that have looked the hostname up got the
\* same value.
C18_HostnameComputedOnce ==
    /\ getfqdn_calls <= 1
    /\ \A t1 \in DOMAIN th, t2 \in DOMAIN th :
          (th[t1].result # "None" /\ th[t2].result # "None") =>
              th[t1].result = th[t2].result

====
